---- MODULE Spec2Model ----
(***************************************************************************)
(* A model of enterprise_extensions/pipe/data_class.py: the RunSettings    *)
(* configuration interpreter (update_from_file, apply_types,               *)
(* update_from_dict, load_pickled_pulsars, get_pta_objects,                *)
(* create_pta_object_from_signals) and the helper                          *)
(* update_dictionary_with_subdictionary.                                   *)
(*                                                                         *)
(* Python strings that the code searches, splits or re-cases are sequences *)
(* of one-character strings; dictionary keys that are only compared are    *)
(* TLA+ strings.  A Python value is a record [t |-> type tag, v |-> ...].  *)
(* A raised exception is the name of its class; "" means no exception.     *)
(***************************************************************************)
EXTENDS Integers, Sequences, FiniteSets, TLC

VARIABLES
    self,      \* the RunSettings object: one field per dataclass field
    run,       \* the update_from_file call in progress or last finished
    calls,     \* every invocation of a configured callable, in order
    storage,   \* the files on disk: path -> content
    reads,     \* every call of load_pickled_pulsars and what it raised
    args,      \* the arguments of the pure function under study
    ret        \* its result ("pending" until it has been applied)

vars == <<self, run, calls, storage, reads, args, ret>>

(***************************************************************************)
(* Python values                                                           *)
(***************************************************************************)
PyNone == [t |-> "none", v |-> 0]
PyInt(n) == [t |-> "int", v |-> n]
PyStr(s) == [t |-> "str", v |-> s]
PyBool(b) == [t |-> "bool", v |-> b]
PyFloat(m, e) == [t |-> "float", v |-> <<m, e>>]
PyArray(xs) == [t |-> "ndarray", v |-> xs]
PyList(xs) == [t |-> "list", v |-> xs]
PyDict(m) == [t |-> "dict", v |-> m]
\* an instance: its class, the keyword arguments it was made from, and the
\* number of the call that made it (two instances are never the same object)
PyObject(cls, kwargs, id) == [t |-> "object", v |-> [cls |-> cls, kwargs |-> kwargs, id |-> id]]
PyCallable(name) == [t |-> "callable", v |-> name]

EmptyMap == [k \in {} |-> PyNone]

\* isinstance(v, collections.abc.Mapping)
IsMapping(v) == v.t = "dict"

\* d[k] = val on a mapping m
SetKey(m, k, val) == [x \in (DOMAIN m) \cup {k} |-> IF x = k THEN val ELSE m[x]]

\* The order in which a dictionary's keys are visited.
RECURSIVE KeySeq(_)
KeySeq(S) ==
    IF S = {} THEN <<>>
    ELSE LET k == CHOOSE x \in S : TRUE IN <<k>> \o KeySeq(S \ {k})

(***************************************************************************)
(* update_dictionary_with_subdictionary(d, u)                              *)
(* d and u are Python values; the result is [err, val]: the exception      *)
(* raised (if any) and d as the call left it.                              *)
(***************************************************************************)
RECURSIVE MergeItems(_, _, _)
\* d.get(k, {}) and the item assignment d[k] = ... exist on dictionaries only
MergeOntoScalarError(v) == IF IsMapping(v) THEN "AttributeError" ELSE "TypeError"

MergeItems(d, u, ks) ==
    IF ks = <<>> THEN [err |-> "", val |-> d]
    ELSE LET k == Head(ks)
             v == u[k]
         IN  IF d.t # "dict"
             THEN [err |-> MergeOntoScalarError(v), val |-> d]
             ELSE IF IsMapping(v)
             THEN LET sub == MergeItems(IF k \in DOMAIN d.v THEN d.v[k] ELSE PyDict(EmptyMap),
                                        v.v, KeySeq(DOMAIN v.v))
                  IN  IF sub.err # ""
                      THEN [err |-> sub.err,
                            val |-> IF k \in DOMAIN d.v
                                    THEN PyDict(SetKey(d.v, k, sub.val)) ELSE d]
                      ELSE MergeItems(PyDict(SetKey(d.v, k, sub.val)), u, Tail(ks))
             ELSE MergeItems(PyDict(SetKey(d.v, k, v)), u, Tail(ks))

update_dictionary_with_subdictionary(d, u) == MergeItems(d, u.v, KeySeq(DOMAIN u.v))

(***************************************************************************)
(* Python string operations on sequences of characters                     *)
(***************************************************************************)
UpperCase == <<"A","B","C","D","E","F","G","H","I","J","K","L","M",
               "N","O","P","Q","R","S","T","U","V","W","X","Y","Z">>
LowerCase == <<"a","b","c","d","e","f","g","h","i","j","k","l","m",
               "n","o","p","q","r","s","t","u","v","w","x","y","z">>
Digits == <<"0","1","2","3","4","5","6","7","8","9">>

IndexIn(c, alphabet) == CHOOSE i \in DOMAIN alphabet : alphabet[i] = c
IsIn(c, alphabet) == \E i \in DOMAIN alphabet : alphabet[i] = c

LowerChar(c) == IF IsIn(c, UpperCase) THEN LowerCase[IndexIn(c, UpperCase)] ELSE c
UpperChar(c) == IF IsIn(c, LowerCase) THEN UpperCase[IndexIn(c, LowerCase)] ELSE c

\* str.lower()
Lower(s) == [i \in DOMAIN s |-> LowerChar(s[i])]
\* str.capitalize(): first character upper-cased, the rest lower-cased
Capitalize(s) == [i \in DOMAIN s |-> IF i = 1 THEN UpperChar(s[i]) ELSE LowerChar(s[i])]

StartsAt(s, m, i) == i + Len(m) - 1 <= Len(s) /\ SubSeq(s, i, i + Len(m) - 1) = m
\* m in s
Contains(s, m) == \E i \in 1..(Len(s) - Len(m) + 1) : StartsAt(s, m, i)

\* s.replace(m, ''), m not empty
RECURSIVE Remove(_, _)
Remove(s, m) ==
    IF s = <<>> THEN <<>>
    ELSE IF StartsAt(s, m, 1) THEN Remove(SubSeq(s, Len(m) + 1, Len(s)), m)
    ELSE <<Head(s)>> \o Remove(Tail(s), m)

\* s.split(c) for a one-character separator
RECURSIVE Split(_, _)
Split(s, c) ==
    IF ~ \E i \in DOMAIN s : s[i] = c THEN <<s>>
    ELSE LET i == CHOOSE i \in DOMAIN s : s[i] = c /\ \A j \in 1..(i - 1) : s[j] # c
         IN  <<SubSeq(s, 1, i - 1)>> \o Split(SubSeq(s, i + 1, Len(s)), c)

\* c.join(parts)
RECURSIVE Join(_, _)
Join(parts, c) ==
    IF parts = <<>> THEN <<>>
    ELSE IF Len(parts) = 1 THEN parts[1]
    ELSE parts[1] \o <<c>> \o Join(Tail(parts), c)

\* str.strip() of blanks
RECURSIVE LStrip(_)
LStrip(s) == IF s # <<>> /\ Head(s) = " " THEN LStrip(Tail(s)) ELSE s
RECURSIVE RStrip(_)
RStrip(s) == IF s # <<>> /\ s[Len(s)] = " " THEN RStrip(SubSeq(s, 1, Len(s) - 1)) ELSE s
Strip(s) == RStrip(LStrip(s))

AllDigits(s) == \A i \in DOMAIN s : IsIn(s[i], Digits)
RECURSIVE DigitsValue(_)
DigitsValue(s) ==
    IF s = <<>> THEN 0
    ELSE 10 * DigitsValue(SubSeq(s, 1, Len(s) - 1)) + (IndexIn(s[Len(s)], Digits) - 1)

Unsigned(s) == IF s # <<>> /\ Head(s) \in {"+", "-"} THEN Tail(s) ELSE s
Sign(s) == IF s # <<>> /\ Head(s) = "-" THEN 0 - 1 ELSE 1

\* int(s) of a decimal literal: blanks around it, a sign, digits
IntCall(s) ==
    LET b == Unsigned(Strip(s))
    IN  IF b # <<>> /\ AllDigits(b)
        THEN [err |-> "", val |-> PyInt(Sign(Strip(s)) * DigitsValue(b))]
        ELSE [err |-> "ValueError", val |-> PyNone]

\* A float is mantissa / 10^exponent with no trailing zero in the mantissa.
RECURSIVE Normalised(_, _)
Normalised(m, e) == IF e > 0 /\ m % 10 = 0 THEN Normalised(m \div 10, e - 1) ELSE PyFloat(m, e)

\* float(s) of a decimal literal: blanks around it, a sign, digits with at
\* most one point.  (Exponents, inf and nan are not spelled in the raw
\* values of this model.)
FloatCall(s) ==
    LET b == Unsigned(Strip(s))
        parts == Split(b, ".")
        whole == parts[1]
        frac == IF Len(parts) = 2 THEN parts[2] ELSE <<>>
    IN  IF Len(parts) <= 2 /\ AllDigits(whole) /\ AllDigits(frac) /\ whole \o frac # <<>>
        THEN [err |-> "",
              val |-> LET n == Normalised(DigitsValue(whole \o frac), Len(frac))
                      IN  PyFloat(Sign(Strip(s)) * n.v[1], n.v[2])]
        ELSE [err |-> "ValueError", val |-> PyNone]

\* dict(s): an empty string has no items; any character of a longer one is
\* not a key/value pair
DictCall(s) ==
    IF s = <<>> THEN [err |-> "", val |-> PyDict(EmptyMap)]
    ELSE [err |-> "ValueError", val |-> PyNone]

\* list(s): the characters
ListCall(s) == [err |-> "", val |-> PyList([i \in DOMAIN s |-> PyStr(<<s[i]>>)])]

\* np.array([np.float(x) for x in value.split(',')])
RECURSIVE FloatEach(_)
FloatEach(parts) ==
    IF parts = <<>> THEN [err |-> "", val |-> <<>>]
    ELSE LET f == FloatCall(Head(parts))
             r == FloatEach(Tail(parts))
         IN  IF f.err # "" THEN [err |-> f.err, val |-> <<>>]
             ELSE IF r.err # "" THEN r
             ELSE [err |-> "", val |-> <<f.val>> \o r.val]

ArrayCoerce(value) ==
    LET r == FloatEach(Split(value, ","))
    IN  IF r.err # "" THEN [err |-> r.err, val |-> PyNone]
        ELSE [err |-> "", val |-> PyArray(r.val)]

\* dictionary[key].lower().capitalize() == "True"
BoolCoerceAnyNonEmpty(value) == [err |-> "", val |-> PyBool(value # <<>>)]
BoolCoerce(value) ==
    [err |-> "", val |-> PyBool(Capitalize(Lower(value)) = <<"T","r","u","e">>)]

\* type_dictionary[key](value)
TypeCall(type, value) ==
    CASE type = "int" -> IntCall(value)
      [] type = "float" -> FloatCall(value)
      [] type = "str" -> [err |-> "", val |-> PyStr(value)]
      [] type = "dict" -> DictCall(value)
      [] type = "list" -> ListCall(value)

(***************************************************************************)
(* RunSettings.apply_types                                                 *)
(***************************************************************************)
CUSTOM_FUNCTION_RETURN ==
    <<"C","U","S","T","O","M","_","F","U","N","C","T","I","O","N","_",
      "R","E","T","U","R","N",":">>
CUSTOM_CLASS == <<"C","U","S","T","O","M","_","C","L","A","S","S",":">>
FUNCTION_CALL == <<"F","U","N","C","T","I","O","N","_","C","A","L","L",":">>

\* eval(function_call): the expressions the model's documents use; any other
\* text is not an expression
Eval(expr) ==
    CASE expr = <<"{","}">> -> [err |-> "", val |-> PyDict(EmptyMap)]
      [] expr = <<"{","'","a","'",":","1","}">> ->
             [err |-> "", val |-> PyDict([k \in {"a"} |-> PyInt(1)])]
      [] expr = <<"1","+","1">> -> [err |-> "", val |-> PyInt(2)]
      [] expr = <<"N","o","n","e">> -> [err |-> "", val |-> PyNone]
      [] OTHER -> [err |-> "SyntaxError", val |-> PyNone]

\* One key of apply_types' loop, after the exclude_keys test: [err, skip, val].
\* skip: the key is left out of out_dictionary.
LookUp(registry, name) ==
    IF name \in DOMAIN registry
    THEN [err |-> "", skip |-> FALSE, val |-> registry[name]]
    ELSE [err |-> "KeyError", skip |-> FALSE, val |-> PyNone]

Converted(r) == [err |-> r.err, skip |-> FALSE, val |-> r.val]

DeclaredConversion(key, value, type_dictionary) ==
    IF key \notin DOMAIN type_dictionary
    THEN [err |-> "", skip |-> TRUE, val |-> PyNone]
    ELSE IF type_dictionary[key] = "ndarray" THEN Converted(ArrayCoerce(value))
    ELSE IF type_dictionary[key] = "bool" THEN Converted(BoolCoerce(value))
    ELSE Converted(TypeCall(type_dictionary[key], value))

CoerceDeclaredTypeFirst(slf, key, value, type_dictionary) ==
    IF key \in DOMAIN type_dictionary
    THEN DeclaredConversion(key, value, type_dictionary)
    ELSE IF Contains(value, CUSTOM_FUNCTION_RETURN)
    THEN LookUp(slf.custom_function_return, Remove(value, CUSTOM_FUNCTION_RETURN))
    ELSE IF Contains(value, CUSTOM_CLASS)
    THEN LookUp(slf.custom_classes, Remove(value, CUSTOM_CLASS))
    ELSE IF Contains(value, FUNCTION_CALL)
    THEN Converted(Eval(Remove(value, FUNCTION_CALL)))
    ELSE DeclaredConversion(key, value, type_dictionary)

CoerceItem(slf, key, value, type_dictionary) ==
    IF Contains(value, CUSTOM_FUNCTION_RETURN)
    THEN LookUp(slf.custom_function_return, Remove(value, CUSTOM_FUNCTION_RETURN))
    ELSE IF Contains(value, CUSTOM_CLASS)
    THEN LookUp(slf.custom_classes, Remove(value, CUSTOM_CLASS))
    ELSE IF Contains(value, FUNCTION_CALL)
    THEN Converted(Eval(Remove(value, FUNCTION_CALL)))
    ELSE DeclaredConversion(key, value, type_dictionary)

\* dictionary is the ordered items of a section: a sequence of [k, v].
RECURSIVE ApplyItems(_, _, _, _, _)
ApplyItems(slf, items, type_dictionary, exclude_keys, out) ==
    IF items = <<>> THEN [err |-> "", out |-> out]
    ELSE LET key == Head(items).k
             value == Head(items).v
         IN  IF key \in exclude_keys
             THEN ApplyItems(slf, Tail(items), type_dictionary, exclude_keys, out)
             ELSE LET c == CoerceItem(slf, key, value, type_dictionary)
                  IN  IF c.err # "" THEN [err |-> c.err, out |-> EmptyMap]
                      ELSE ApplyItems(slf, Tail(items), type_dictionary, exclude_keys,
                                      IF c.skip THEN out ELSE SetKey(out, key, c.val))

apply_types(slf, dictionary, type_dictionary, exclude_keys) ==
    ApplyItems(slf, dictionary, type_dictionary, exclude_keys, EmptyMap)

(***************************************************************************)
(* The RunSettings dataclass                                               *)
(***************************************************************************)
\* RunSettings(): every field at its default
FreshSettings ==
    [config_file |-> PyNone,
     pulsar_pickle |-> PyNone,
     noise_dict_json |-> PyNone,
     signal_creating_functions |-> EmptyMap,
     signal_creating_function_parameters |-> EmptyMap,
     pta_creating_function_parameters |-> EmptyMap,
     pta_creating_functions |-> EmptyMap,
     custom_classes |-> EmptyMap,
     custom_function_return |-> EmptyMap,
     psrs |-> PyList(<<>>),
     noise_dict |-> PyDict(EmptyMap),
     sections |-> EmptyMap,
     typed_sections |-> EmptyMap]

\* no update_from_file call has been made
NoDocument == [default |-> <<>>, sections |-> <<>>]
NoRun == [status |-> "idle", count |-> 0, composed |-> 0, doc |-> NoDocument, pos |-> 0,
          err |-> "", before |-> FreshSettings]

NoArgs == [fn |-> "none"]
NoRet == [done |-> FALSE, err |-> "", val |-> PyNone, exit |-> FALSE]

(***************************************************************************)
(* update_dictionary_with_subdictionary on its own                         *)
(***************************************************************************)
MaxDepth == 2

Scalars == {PyNone, PyInt(1), PyInt(2)}

RECURSIVE DictsOver(_, _)
\* every dict whose keys are among keys and whose values are in values
DictsOver(keys, values) ==
    UNION {{PyDict(m) : m \in [ks -> values]} : ks \in SUBSET keys}

RECURSIVE MergeValues(_)
\* values nested depth deep: scalars, and dicts of shallower values
MergeValues(depth) ==
    IF depth = 0 THEN Scalars
    ELSE Scalars \cup DictsOver(IF depth = 1 THEN {"x"} ELSE {"a", "b"},
                                MergeValues(depth - 1))

MergeDicts == {v \in MergeValues(MaxDepth) : IsMapping(v)}

InitMerge ==
    /\ self = FreshSettings
    /\ run = NoRun
    /\ calls = <<>>
    /\ storage = EmptyMap
    /\ reads = <<>>
    /\ args \in [fn : {"update_dictionary_with_subdictionary"}, d : MergeDicts, u : MergeDicts]
    /\ ret = NoRet

MergeCall ==
    /\ args.fn = "update_dictionary_with_subdictionary"
    /\ ~ret.done
    /\ LET r == update_dictionary_with_subdictionary(args.d, args.u)
       IN  ret' = [done |-> TRUE, err |-> r.err, val |-> r.val, exit |-> FALSE]
    /\ UNCHANGED <<self, run, calls, storage, reads, args>>

NextMerge == MergeCall

SpecMerge == InitMerge /\ [][NextMerge]_vars

\* The merge the contract describes: two mappings merge key by key, anything
\* else is replaced by the overlay's value.
RECURSIVE MergeContract(_, _)
MergeContract(base, overlay) ==
    [k \in (DOMAIN base) \cup (DOMAIN overlay) |->
        IF k \notin DOMAIN overlay THEN base[k]
        ELSE IF k \in DOMAIN base /\ IsMapping(base[k]) /\ IsMapping(overlay[k])
        THEN PyDict(MergeContract(base[k].v, overlay[k].v))
        ELSE overlay[k]]

\* C4: update_dictionary_with_subdictionary(base, overlay) returns base with
\* every key of overlay merged in: two mappings merge recursively, and in
\* every other case (scalar over mapping, mapping over scalar) the overlay's
\* value replaces the base's; the keys only base has are unchanged.
C4_MergeFollowsContract ==
    (args.fn = "update_dictionary_with_subdictionary" /\ ret.done)
        => /\ ret.err = ""
           /\ ret.val = PyDict(MergeContract(args.d.v, args.u.v))

(***************************************************************************)
(* apply_types on its own                                                  *)
(***************************************************************************)
MaxItems == 1

exclude_keys == {"function", "module", "class", "signal_return", "pta_return", "custom_return"}

DeclaredTypes == {"int", "float", "str", "bool", "ndarray", "dict", "list"}

\* names of sections and labels
Name_c1 == <<"c","1">>
Name_c_comma_1 == <<"c",",","1">>
Name_lab == <<"l","a","b">>

\* registries as earlier sections can have left them; a section name or a
\* custom_return label is any text, a marker or a comma included
TypesSettings ==
    [FreshSettings EXCEPT
        !.custom_classes =
            [n \in {Name_c1, Name_c_comma_1, FUNCTION_CALL \o Name_c1} |->
                PyObject(<<"C">>, [k \in {"n"} |-> PyInt(1)], Len(n))],
        !.custom_function_return =
            [n \in {Name_lab, CUSTOM_CLASS \o Name_c1} |->
                IF n = Name_lab THEN PyDict([k \in {"a"} |-> PyInt(3)]) ELSE PyInt(7)]]

MarkerValues ==
    {CUSTOM_CLASS \o Name_c1,
     CUSTOM_CLASS \o Name_c_comma_1,
     CUSTOM_CLASS \o <<"z">>,
     CUSTOM_FUNCTION_RETURN \o Name_lab,
     CUSTOM_FUNCTION_RETURN \o <<"z">>,
     FUNCTION_CALL \o <<"1","+","1">>,
     FUNCTION_CALL \o <<"{","}">>,
     FUNCTION_CALL \o <<"?">>,
     CUSTOM_CLASS \o Name_c1 \o CUSTOM_FUNCTION_RETURN,
     FUNCTION_CALL \o CUSTOM_CLASS \o Name_c1,
     <<"x">> \o CUSTOM_CLASS \o Name_c1}

PlainValues ==
    {<<"t","r","u","e">>, <<"T","r","u","e">>, <<"T","R","U","E">>, <<"t","R","u","E">>,
     <<"f","a","l","s","e">>, <<"T","r","u","e"," ">>, <<" ","t","r","u","e">>,
     <<"y","e","s">>, <<"1">>, <<>>,
     <<"1","2">>, <<"-","3">>, <<"1",".","0",",","2",".","5",",","3">>, <<"2",".","5","0">>}

RawValues == MarkerValues \cup PlainValues

TypesKeys == {"x", "y", "module"}

ItemSeqs(keys, values, n) ==
    {s \in [1..n -> [k : keys, v : values]] :
        \A i, j \in 1..n : i # j => s[i].k # s[j].k}

InitTypes ==
    /\ self = TypesSettings
    /\ run = NoRun
    /\ calls = <<>>
    /\ storage = EmptyMap
    /\ reads = <<>>
    /\ \E n \in 0..MaxItems :
       \E dictionary \in ItemSeqs(TypesKeys, RawValues, n) :
       \E type_dictionary \in {EmptyMap} \cup {[k \in TypesKeys |-> T] : T \in DeclaredTypes} :
       \E excl \in {{}, exclude_keys} :
           args = [fn |-> "apply_types", dictionary |-> dictionary,
                   type_dictionary |-> type_dictionary, exclude_keys |-> excl]
    /\ ret = NoRet

ApplyTypesCall ==
    /\ args.fn = "apply_types"
    /\ ~ret.done
    /\ LET r == apply_types(self, args.dictionary, args.type_dictionary, args.exclude_keys)
       IN  ret' = [done |-> TRUE, err |-> r.err, val |-> PyDict(r.out), exit |-> FALSE]
    /\ UNCHANGED <<self, run, calls, storage, reads, args>>

NextTypes == ApplyTypesCall

SpecTypes == InitTypes /\ [][NextTypes]_vars

HasMarker(value) ==
    \/ Contains(value, CUSTOM_FUNCTION_RETURN)
    \/ Contains(value, CUSTOM_CLASS)
    \/ Contains(value, FUNCTION_CALL)

\* what the first marker of value, in the order CUSTOM_FUNCTION_RETURN,
\* CUSTOM_CLASS, FUNCTION_CALL, stands for: [found, val]
Directive(slf, value) ==
    LET label == Remove(value, CUSTOM_FUNCTION_RETURN)
        class == Remove(value, CUSTOM_CLASS)
        expr == Remove(value, FUNCTION_CALL)
    IN  CASE Contains(value, CUSTOM_FUNCTION_RETURN) ->
                 IF label \in DOMAIN slf.custom_function_return
                 THEN [found |-> TRUE, val |-> slf.custom_function_return[label]]
                 ELSE [found |-> FALSE, val |-> PyNone]
          [] ~Contains(value, CUSTOM_FUNCTION_RETURN) /\ Contains(value, CUSTOM_CLASS) ->
                 IF class \in DOMAIN slf.custom_classes
                 THEN [found |-> TRUE, val |-> slf.custom_classes[class]]
                 ELSE [found |-> FALSE, val |-> PyNone]
          [] OTHER -> [found |-> Eval(expr).err = "", val |-> Eval(expr).val]

DirectiveItems ==
    {i \in DOMAIN args.dictionary :
        args.dictionary[i].k \notin args.exclude_keys /\ HasMarker(args.dictionary[i].v)}

ConvertedItems ==
    {i \in DOMAIN args.dictionary :
        args.dictionary[i].k \notin args.exclude_keys /\ ~HasMarker(args.dictionary[i].v)}

\* C3: a key outside exclude_keys whose raw value carries a directive marker
\* gets the looked-up object or the evaluated expression, the first marker in
\* the order CUSTOM_FUNCTION_RETURN, CUSTOM_CLASS, FUNCTION_CALL deciding,
\* whatever type is declared for the key and also when none is; the declared
\* type's conversion neither produces the value nor raises for such a key.
C3_DirectiveBeforeDeclaredType ==
    (args.fn = "apply_types" /\ ret.done) =>
        /\ ret.err = "" =>
              \A i \in DirectiveItems :
                  /\ args.dictionary[i].k \in DOMAIN ret.val.v
                  /\ Directive(self, args.dictionary[i].v).found
                  /\ ret.val.v[args.dictionary[i].k] = Directive(self, args.dictionary[i].v).val
        /\ (ConvertedItems = {} /\ \A i \in DirectiveItems : Directive(self, args.dictionary[i].v).found)
              => ret.err = ""
        /\ (ConvertedItems = {} /\ ret.err # "") => ret.err \in {"KeyError", "SyntaxError"}

\* a value with two markers and a comma, for a key with a declared type, was
\* resolved as the custom function return
C3_Witness ==
    /\ args.fn = "apply_types" /\ ret.done /\ ret.err = ""
    /\ \E i \in DirectiveItems :
          /\ args.dictionary[i].v = CUSTOM_CLASS \o Name_c1 \o CUSTOM_FUNCTION_RETURN
          /\ args.dictionary[i].k \in DOMAIN args.type_dictionary
          /\ args.type_dictionary[args.dictionary[i].k] = "ndarray"
          /\ ret.val.v[args.dictionary[i].k] = PyInt(7)

BoolItems ==
    {i \in ConvertedItems :
        /\ args.dictionary[i].k \in DOMAIN args.type_dictionary
        /\ args.type_dictionary[args.dictionary[i].k] = "bool"}

\* C9: a key declared bool whose raw value carries no marker becomes true
\* exactly when the lower-cased raw string is "true" and false for every other
\* string; a boolean key never raises.
C9_BoolOnlyForTrue ==
    (args.fn = "apply_types" /\ ret.done) =>
        /\ ret.err = "" =>
              \A i \in BoolItems :
                  /\ args.dictionary[i].k \in DOMAIN ret.val.v
                  /\ ret.val.v[args.dictionary[i].k] =
                         PyBool(Lower(args.dictionary[i].v) = <<"t","r","u","e">>)
        /\ (BoolItems = ConvertedItems /\ DirectiveItems = {}) => ret.err = ""

\* "True " with a trailing blank was coerced to false
C9_Witness ==
    /\ args.fn = "apply_types" /\ ret.done /\ ret.err = ""
    /\ \E i \in BoolItems :
          /\ args.dictionary[i].v = <<"T","r","u","e"," ">>
          /\ ret.val.v[args.dictionary[i].k] = PyBool(FALSE)

(***************************************************************************)
(* RunSettings.load_pickled_pulsars                                        *)
(***************************************************************************)
LOG10_ECORR == <<"l","o","g","1","0","_","e","c","o","r","r">>
BASIS_ECORR == <<"b","a","s","i","s","_","e","c","o","r","r">>

\* a file on disk: what pickle.load or json.load finds in it
PickleFile(psrs) == [kind |-> "pickle", data |-> PyList(psrs)]
JsonFile(dict) == [kind |-> "json", data |-> PyDict(dict)]

\* open(path): [err, file]
Open(files, path) ==
    IF path.t # "str" THEN [err |-> "TypeError", file |-> PickleFile(<<>>)]
    ELSE IF path.v \notin DOMAIN files THEN [err |-> "FileNotFoundError", file |-> PickleFile(<<>>)]
    ELSE [err |-> "", file |-> files[path.v]]

\* 'log10_ecorr' in par and 'basis_ecorr' not in par
NeedsAlias(par) == Contains(par, LOG10_ECORR) /\ ~Contains(par, BASIS_ECORR)

\* the first log10_ecorr of par replaced by basis_ecorr
AliasKeyReplacingMarker(par) ==
    LET i == CHOOSE i \in DOMAIN par :
                 StartsAt(par, LOG10_ECORR, i) /\ \A j \in 1..(i - 1) : ~StartsAt(par, LOG10_ECORR, j)
    IN  SubSeq(par, 1, i - 1) \o BASIS_ECORR \o SubSeq(par, i + Len(LOG10_ECORR), Len(par))

\* par.split('_')[0] + '_basis_ecorr_' + '_'.join(par.split('_')[1:])
AliasKey(par) ==
    Split(par, "_")[1] \o <<"_">> \o BASIS_ECORR \o <<"_">> \o Join(Tail(Split(par, "_")), "_")

\* for par in list(self.noise_dict.keys()): ...
RECURSIVE AddAliases(_, _)
AddAliases(noise, pars) ==
    IF pars = <<>> THEN noise
    ELSE AddAliases(IF NeedsAlias(Head(pars))
                    THEN SetKey(noise, AliasKey(Head(pars)), noise[Head(pars)])
                    ELSE noise,
                    Tail(pars))

\* for key in self.pta_creating_function_parameters.keys(): ...
AssignNoisedict(params, noise_dict) ==
    [key \in DOMAIN params |->
        IF "noisedict" \in DOMAIN params[key].v
        THEN PyDict(SetKey(params[key].v, "noisedict", noise_dict))
        ELSE params[key]]

\* lines 222-225: the aliases join the noise dictionary just loaded
WithAliases(slf) ==
    [slf EXCEPT !.noise_dict = PyDict(AddAliases(@.v, KeySeq(DOMAIN @.v)))]

\* lines 228-230
WithNoisedict(slf) ==
    [slf EXCEPT !.pta_creating_function_parameters = AssignNoisedict(@, slf.noise_dict)]

\* except FileNotFoundError: ... exit(1); any other exception leaves the method
LoadFailed(err, slf) == [err |-> err, exit |-> err = "FileNotFoundError", slf |-> slf]

\* lines 217-230, json what open(self.noise_dict_json) gave
LoadNoise(slf, json) ==
    IF json.err # "" THEN LoadFailed(json.err, slf)
    ELSE IF json.file.kind # "json" THEN LoadFailed("JSONDecodeError", slf)
    ELSE [err |-> "", exit |-> FALSE,
          slf |-> WithNoisedict(WithAliases([slf EXCEPT !.noise_dict = json.file.data]))]

\* lines 215-220, pickled what open(self.pulsar_pickle) gave
LoadPulsars(slf, files, pickled) ==
    IF pickled.err # "" THEN LoadFailed(pickled.err, slf)
    ELSE IF pickled.file.kind # "pickle" THEN LoadFailed("UnpicklingError", slf)
    ELSE LoadNoise([slf EXCEPT !.psrs = pickled.file.data], Open(files, slf.noise_dict_json))

\* [err, exit, slf]: the exception that leaves the method, whether exit(1)
\* ended the process, and the object as the method left it
load_pickled_pulsars(slf, files) == LoadPulsars(slf, files, Open(files, slf.pulsar_pickle))

\* one entry of reads: the subjects held when load_pickled_pulsars was called
\* and what the call raised
LoadEntry(slf, load) == [psrs |-> slf.psrs, err |-> load.err]

(***************************************************************************)
(* load_pickled_pulsars on its own                                         *)
(***************************************************************************)
MaxNoiseKeys == 2

Path_p == <<"p">>
Path_n == <<"n">>
Pulsar_J1 == <<"J","1">>
Suffix_w == <<"w","i","d","e">>
Us == <<"_">>

NoiseKeys ==
    {Pulsar_J1 \o Us \o LOG10_ECORR \o Us \o Suffix_w,
     Pulsar_J1 \o Us \o Suffix_w \o Us \o LOG10_ECORR,
     Pulsar_J1 \o Us \o BASIS_ECORR \o Us \o Suffix_w,
     Pulsar_J1 \o Us \o BASIS_ECORR \o Us \o LOG10_ECORR \o Us \o Suffix_w,
     Pulsar_J1 \o Us \o BASIS_ECORR \o Us \o Suffix_w \o Us \o LOG10_ECORR,
     Pulsar_J1 \o Us \o <<"e","f","a","c">>,
     LOG10_ECORR}

NoiseValues == {PyInt(1), PyInt(2)}

NoiseDicts ==
    UNION {[ks -> NoiseValues] : ks \in {x \in SUBSET NoiseKeys : Cardinality(x) <= MaxNoiseKeys}}

Pulsars == <<PyStr(Pulsar_J1)>>

\* RunSettings(pulsar_pickle='p', noise_dict_json='n')
LoadSettings ==
    [FreshSettings EXCEPT !.pulsar_pickle = PyStr(Path_p), !.noise_dict_json = PyStr(Path_n)]

InitLoad ==
    /\ self = LoadSettings
    /\ run = NoRun
    /\ calls = <<>>
    /\ \E noise \in NoiseDicts :
       \E present \in SUBSET {Path_p, Path_n} :
           storage = [path \in present |->
                         IF path = Path_p THEN PickleFile(Pulsars) ELSE JsonFile(noise)]
    /\ reads = <<>>
    /\ args = [fn |-> "load_pickled_pulsars"]
    /\ ret = NoRet

LoadCall ==
    /\ args.fn = "load_pickled_pulsars"
    /\ ~ret.done
    /\ LET r == load_pickled_pulsars(self, storage)
       IN  /\ self' = r.slf
           /\ ret' = [done |-> TRUE, err |-> r.err, val |-> PyNone, exit |-> r.exit]
           /\ reads' = Append(reads, LoadEntry(self, r))
    /\ UNCHANGED <<run, calls, storage, args>>

NextLoad == LoadCall

SpecLoad == InitLoad /\ [][NextLoad]_vars

Loaded == args.fn = "load_pickled_pulsars" /\ ret.done /\ ret.err = ""
LoadedNoise == storage[Path_n].data.v

FirstUnderscore(par) ==
    CHOOSE i \in DOMAIN par : par[i] = "_" /\ \A j \in 1..(i - 1) : par[j] # "_"

\* <pulsar>_log10_ecorr_<suffix>
HasClaimedForm(par) ==
    /\ \E i \in DOMAIN par : par[i] = "_"
    /\ StartsAt(par, Us \o LOG10_ECORR \o Us, FirstUnderscore(par))
    /\ Len(par) > FirstUnderscore(par) + Len(LOG10_ECORR) + 1
    /\ ~Contains(par, BASIS_ECORR)

\* <pulsar>_basis_ecorr_<suffix>
ClaimedAlias(par) ==
    SubSeq(par, 1, FirstUnderscore(par)) \o BASIS_ECORR
        \o SubSeq(par, FirstUnderscore(par) + Len(LOG10_ECORR) + 1, Len(par))

\* C5 as stated: after load_pickled_pulsars every loaded key
\* <pulsar>_log10_ecorr_<suffix> has the key <pulsar>_basis_ecorr_<suffix>
\* beside it with the identical value, and a basis_ecorr key that was already
\* in the loaded dictionary keeps its value.
C5_AliasAsStated ==
    Loaded =>
        /\ \A par \in DOMAIN LoadedNoise :
              HasClaimedForm(par) =>
                  /\ ClaimedAlias(par) \in DOMAIN self.noise_dict.v
                  /\ self.noise_dict.v[ClaimedAlias(par)] = LoadedNoise[par]
        /\ \A par \in DOMAIN LoadedNoise :
              Contains(par, BASIS_ECORR) => self.noise_dict.v[par] = LoadedNoise[par]

\* the key with _basis_ecorr inserted after the text before its first underscore
InsertedAlias(par) ==
    SubSeq(par, 1, FirstUnderscore(par)) \o BASIS_ECORR
        \o SubSeq(par, FirstUnderscore(par), Len(par))

AliasedKeys ==
    {par \in DOMAIN LoadedNoise : Contains(par, LOG10_ECORR) /\ ~Contains(par, BASIS_ECORR)}

\* C5 amended: after load_pickled_pulsars every loaded key that contains
\* log10_ecorr and not basis_ecorr has beside it the key made of the text
\* before its first underscore, "_basis_ecorr", and the rest of the key from
\* that underscore on, with the identical value; a key of that name already
\* in the loaded dictionary is overwritten with that value; every other
\* loaded key keeps its value and no other key is added.
C5_AliasInsertedAfterPulsar ==
    Loaded =>
        /\ \A par \in AliasedKeys :
              /\ InsertedAlias(par) \in DOMAIN self.noise_dict.v
              /\ self.noise_dict.v[InsertedAlias(par)] = LoadedNoise[par]
        /\ \A par \in DOMAIN LoadedNoise :
              par \notin {InsertedAlias(q) : q \in AliasedKeys}
                  => self.noise_dict.v[par] = LoadedNoise[par]
        /\ DOMAIN self.noise_dict.v =
              (DOMAIN LoadedNoise) \cup {InsertedAlias(q) : q \in AliasedKeys}

\* a loaded basis_ecorr key had another value than the log10_ecorr key it is
\* the alias of, and was overwritten
C5_Witness ==
    /\ Loaded
    /\ \E par \in AliasedKeys :
          /\ InsertedAlias(par) \in DOMAIN LoadedNoise
          /\ LoadedNoise[InsertedAlias(par)] # LoadedNoise[par]
          /\ self.noise_dict.v[InsertedAlias(par)] = LoadedNoise[par]

(***************************************************************************)
(* The callables a configuration file can name: the modules importlib      *)
(* finds and the functions of enterprise_extensions.models.  A parameter   *)
(* is [name, has_default, default, type]; type "" is no annotation.        *)
(***************************************************************************)
Param(name, type) == [name |-> name, has_default |-> FALSE, default |-> PyNone, type |-> type]
ParamDefault(name, type, default) ==
    [name |-> name, has_default |-> TRUE, default |-> default, type |-> type]

Module_m == <<"m">>
Module_models == <<"e","n","t","e","r","p","r","i","s","e","_","e","x","t","e","n","s","i","o","n","s",
                   ".","m","o","d","e","l","s">>
Name_C == <<"C">>
Name_mk == <<"m","k">>
Name_sg == <<"s","g">>
Name_pt == <<"p","t">>
Name_model == <<"m","o","d","e","l">>
Name_Signal == <<"S","i","g","n","a","l">>
Name_PTA == <<"P","T","A">>

Qualified(module, name) == module \o <<".">> \o name

\* class C:  def __init__(self, cfg: dict = None, n: int = 1)
\* def mk(n: int = 0)                      returns the dict {'a': n}
\* def sg(cfg: dict = None, flag: bool = False)    returns a signal collection
\* def pt(psrs, noisedict: dict = None)            returns a pta object
\* enterprise_extensions.models:
\* def model(psrs, noisedict: dict = None, n: int = 30)   returns a pta object
Callables ==
    [q \in {Qualified(Module_m, Name_C), Qualified(Module_m, Name_mk),
            Qualified(Module_m, Name_sg), Qualified(Module_m, Name_pt),
            Qualified(Module_models, Name_model)} |->
        CASE q = Qualified(Module_m, Name_C) ->
                 [kind |-> "class",
                  params |-> <<Param("self", ""), ParamDefault("cfg", "dict", PyNone),
                               ParamDefault("n", "int", PyInt(1))>>]
          [] q = Qualified(Module_m, Name_mk) ->
                 [kind |-> "value", params |-> <<ParamDefault("n", "int", PyInt(0))>>]
          [] q = Qualified(Module_m, Name_sg) ->
                 [kind |-> "signal",
                  params |-> <<ParamDefault("cfg", "dict", PyNone),
                               ParamDefault("flag", "bool", PyBool(FALSE))>>]
          [] q = Qualified(Module_m, Name_pt) ->
                 [kind |-> "pta",
                  params |-> <<Param("psrs", ""), ParamDefault("noisedict", "dict", PyNone)>>]
          [] q = Qualified(Module_models, Name_model) ->
                 [kind |-> "pta",
                  params |-> <<Param("psrs", ""), ParamDefault("noisedict", "dict", PyNone),
                               ParamDefault("n", "int", PyInt(30))>>]]

\* getattr(importlib.import_module(module), name): [err, fn]
GetAttr(module, name) ==
    IF module \notin {Module_m, Module_models}
    THEN [err |-> "ModuleNotFoundError", fn |-> <<>>]
    ELSE IF Qualified(module, name) \notin DOMAIN Callables
    THEN [err |-> "AttributeError", fn |-> <<>>]
    ELSE [err |-> "", fn |-> Qualified(module, name)]

\* get_default_args_types_from_function(func): [defaults, types]
get_default_args_types_from_function(func) ==
    LET params == Callables[func].params
        withDefault == {i \in DOMAIN params : params[i].has_default}
        withType == {i \in DOMAIN params : params[i].type # ""}
    IN  [defaults |-> [k \in {params[i].name : i \in withDefault} |->
                          (params[CHOOSE i \in withDefault : params[i].name = k]).default],
         types |-> [k \in {params[i].name : i \in withType} |->
                          (params[CHOOSE i \in withType : params[i].name = k]).type]]

\* func(**kwargs): [err, val]; id numbers the call.  A class is called
\* through its __init__, whose self is bound.
Call(func, kwargs, id) ==
    LET all == Callables[func].params
        params == IF Callables[func].kind = "class" THEN Tail(all) ELSE all
        names == {params[i].name : i \in DOMAIN params}
        required == {params[i].name : i \in {j \in DOMAIN params : ~params[j].has_default}}
        given == [k \in names |->
                     IF k \in DOMAIN kwargs THEN kwargs[k]
                     ELSE (params[CHOOSE i \in DOMAIN params : params[i].name = k]).default]
    IN  IF ~(DOMAIN kwargs \subseteq names) \/ ~(required \subseteq DOMAIN kwargs)
        THEN [err |-> "TypeError", val |-> PyNone]
        ELSE [err |-> "",
              val |-> CASE Callables[func].kind = "class" -> PyObject(func, given, id)
                        [] Callables[func].kind = "value" -> PyDict([k \in {"a"} |-> given["n"]])
                        [] Callables[func].kind = "signal" -> PyObject(Name_Signal, given, id)
                        [] Callables[func].kind = "pta" -> PyObject(Name_PTA, given, id)]

(***************************************************************************)
(* RunSettings.update_from_dict                                            *)
(***************************************************************************)
\* __annotations__, in the order of the dataclass
Annotations ==
    <<[name |-> "config_file", dtype |-> "str"],
      [name |-> "pulsar_pickle", dtype |-> "str"],
      [name |-> "noise_dict_json", dtype |-> "str"],
      [name |-> "signal_creating_functions", dtype |-> "dict"],
      [name |-> "signal_creating_function_parameters", dtype |-> "dict"],
      [name |-> "pta_creating_function_parameters", dtype |-> "dict"],
      [name |-> "pta_creating_functions", dtype |-> "dict"],
      [name |-> "custom_classes", dtype |-> "dict"],
      [name |-> "custom_function_return", dtype |-> "dict"],
      [name |-> "psrs", dtype |-> "list"],
      [name |-> "noise_dict", dtype |-> "dict"],
      [name |-> "sections", dtype |-> "dict"],
      [name |-> "typed_sections", dtype |-> "dict"]>>

\* the fields that hold a mapping as such (the others hold a Python value)
RegistryFields ==
    {"signal_creating_functions", "signal_creating_function_parameters",
     "pta_creating_function_parameters", "pta_creating_functions", "custom_classes",
     "custom_function_return", "sections", "typed_sections"}

\* lines 204-208: the converted value is set; a TypeError of the conversion
\* leaves the raw one
SetField(slf, name, value, c) ==
    IF c.err = "TypeError" THEN [err |-> "", slf |-> [slf EXCEPT ![name] = PyStr(value)]]
    ELSE IF c.err # "" THEN [err |-> c.err, slf |-> slf]
    ELSE [err |-> "",
          slf |-> [slf EXCEPT ![name] = IF name \in RegistryFields THEN c.val.v ELSE c.val]]

RECURSIVE UpdateFields(_, _, _)
\* the loop goes on unless the conversion raised
UpdateRest(r, kwargs, ann) == IF r.err # "" THEN r ELSE UpdateFields(r.slf, kwargs, ann)

UpdateFields(slf, kwargs, ann) ==
    IF ann = <<>> THEN [err |-> "", slf |-> slf]
    ELSE IF Head(ann).name \notin DOMAIN kwargs THEN UpdateFields(slf, kwargs, Tail(ann))
    ELSE UpdateRest(SetField(slf, Head(ann).name, kwargs[Head(ann).name],
                             TypeCall(Head(ann).dtype, kwargs[Head(ann).name])),
                    kwargs, Tail(ann))

\* kwargs: key -> raw string
update_from_dict(slf, kwargs) == UpdateFields(slf, kwargs, Annotations)

(***************************************************************************)
(* RunSettings.update_from_file, one section at a time.  A document is     *)
(* what configparser read: [default, sections], default the items of       *)
(* [DEFAULT] and sections the other sections in file order, each           *)
(* [name, items]; items are sequences of [k, v].                           *)
(***************************************************************************)
ItemKeys(items) == {items[i].k : i \in DOMAIN items}
ItemValue(items, key) == items[CHOOSE i \in DOMAIN items : items[i].k = key].v
ItemsDict(items) == [key \in ItemKeys(items) |-> ItemValue(items, key)]

\* config.sections(): the section names, [DEFAULT] not among them
ConfigSections(doc) == [i \in DOMAIN doc.sections |-> doc.sections[i].name]

\* config.items(section): the items of [DEFAULT], each overridden by the
\* section's own value, then the section's other items
ConfigItems(doc, i) ==
    LET own == doc.sections[i].items
        inherited == [j \in DOMAIN doc.default |->
                         IF doc.default[j].k \in ItemKeys(own)
                         THEN [k |-> doc.default[j].k, v |-> ItemValue(own, doc.default[j].k)]
                         ELSE doc.default[j]]
    IN  inherited \o SelectSeq(own, LAMBDA it : it.k \notin ItemKeys(doc.default))

\* one entry of calls: the callable, its arguments, what it raised or
\* returned, and where the object stood when it was called
CallEntry(func, kwargs, result, slf, ctx) ==
    [fn |-> func, kwargs |-> PyDict(kwargs),
     err |-> result.err, val |-> result.val,
     by |-> ctx.by, section |-> ctx.section, update |-> ctx.update,
     reads |-> ctx.reads, psrs |-> slf.psrs, noise_dict |-> slf.noise_dict]

Raised(err, slf, log) == [err |-> err, slf |-> slf, calls |-> log]

\* what a method that only changes the object leaves, calls untouched
Updated(r, log) == Raised(r.err, r.slf, log)

\* lines 82-87: section is input or output
InputSection(slf, items, log) ==
    Updated(update_from_dict(slf, ItemsDict(SelectSeq(items, LAMBDA it : it.v # <<>>))), log)

\* lines 103-104: the class is called and the object stored
ClassMade(slf, section, log, ctx, func, class_parameters, made) ==
    IF made.err # ""
    THEN Raised(made.err, slf, Append(log, CallEntry(func, class_parameters.v, made, slf, ctx)))
    ELSE Raised("",
                [slf EXCEPT !.custom_classes = SetKey(@, section, made.val),
                            !.typed_sections = SetKey(@, section, class_parameters)],
                Append(log, CallEntry(func, class_parameters.v, made, slf, ctx)))

\* line 102: the file's parameters are laid over the defaults
ClassMerged(slf, section, log, ctx, func, class_parameters) ==
    IF class_parameters.err # "" THEN Raised(class_parameters.err, slf, log)
    ELSE ClassMade(slf, section, log, ctx, func, class_parameters.val,
                   Call(func, class_parameters.val.v, Len(log) + 1))

\* lines 100-102
ClassTyped(slf, section, log, ctx, func, defaults, class_parameters_from_file) ==
    IF class_parameters_from_file.err # "" THEN Raised(class_parameters_from_file.err, slf, log)
    ELSE ClassMerged(slf, section, log, ctx, func,
                     update_dictionary_with_subdictionary(
                         PyDict(defaults), PyDict(class_parameters_from_file.out)))

\* lines 97-101
ClassImported(slf, section, items, log, ctx, custom_class) ==
    IF custom_class.err # "" THEN Raised(custom_class.err, slf, log)
    ELSE ClassTyped(slf, section, log, ctx, custom_class.fn,
                    get_default_args_types_from_function(custom_class.fn).defaults,
                    apply_types(slf, items,
                                get_default_args_types_from_function(custom_class.fn).types,
                                exclude_keys))

\* lines 89-104: the section has a class key
ClassSection(slf, section, items, log, ctx) ==
    IF "module" \notin ItemKeys(items) THEN Raised("KeyError", slf, log)
    ELSE ClassImported(slf, section, items, log, ctx,
                       GetAttr(ItemValue(items, "module"), ItemValue(items, "class")))

\* lines 115-120: the function is called and its return value stored
CustomReturn(slf, section, label, log, ctx, func, kwargs, returned) ==
    IF returned.err # ""
    THEN Raised(returned.err, slf, Append(log, CallEntry(func, kwargs, returned, slf, ctx)))
    ELSE Raised("",
                [slf EXCEPT !.custom_function_return = SetKey(@, label, returned.val),
                            !.typed_sections = SetKey(@, section, PyDict(kwargs))],
                Append(log, CallEntry(func, kwargs, returned, slf, ctx)))

\* lines 123-125: the function is registered already (line 122) when the
\* parameters merge
SignalReturn(slf, section, log, merged) ==
    IF merged.err # "" THEN Raised(merged.err, slf, log)
    ELSE Raised("",
                [slf EXCEPT !.signal_creating_function_parameters =
                                SetKey(@, section, merged.val)],
                log)

\* lines 128-130
PtaReturn(slf, section, log, merged) ==
    IF merged.err # "" THEN Raised(merged.err, slf, log)
    ELSE Raised("",
                [slf EXCEPT !.pta_creating_function_parameters =
                                SetKey(@, section, merged.val)],
                log)

\* lines 115-135
FunctionTyped(slf, section, items, log, ctx, func, defaults, function_parameters_from_file) ==
    IF function_parameters_from_file.err # ""
    THEN Raised(function_parameters_from_file.err, slf, log)
    ELSE IF "custom_return" \in ItemKeys(items)
    THEN CustomReturn(slf, section, ItemValue(items, "custom_return"), log, ctx, func,
                      function_parameters_from_file.out,
                      Call(func, function_parameters_from_file.out, Len(log) + 1))
    ELSE IF "signal_return" \in ItemKeys(items)
    THEN SignalReturn([slf EXCEPT !.signal_creating_functions =
                                      SetKey(@, section, PyCallable(func))],
                      section, log,
                      update_dictionary_with_subdictionary(
                          PyDict(defaults), PyDict(function_parameters_from_file.out)))
    ELSE IF "pta_return" \in ItemKeys(items)
    THEN PtaReturn([slf EXCEPT !.pta_creating_functions =
                                   SetKey(@, section, PyCallable(func))],
                   section, log,
                   update_dictionary_with_subdictionary(
                       PyDict(defaults), PyDict(function_parameters_from_file.out)))
    ELSE Raised("AttributeError", slf, log)

\* lines 110-113
FunctionImported(slf, section, items, log, ctx, custom_function) ==
    IF custom_function.err # "" THEN Raised(custom_function.err, slf, log)
    ELSE FunctionTyped(slf, section, items, log, ctx, custom_function.fn,
                       get_default_args_types_from_function(custom_function.fn).defaults,
                       apply_types(slf, items,
                                   get_default_args_types_from_function(custom_function.fn).types,
                                   exclude_keys))

\* lines 106-135: the section has a function key
FunctionSection(slf, section, items, log, ctx) ==
    IF "module" \notin ItemKeys(items) THEN Raised("KeyError", slf, log)
    ELSE FunctionImported(slf, section, items, log, ctx,
                          GetAttr(ItemValue(items, "module"), ItemValue(items, "function")))

\* lines 146-149: the function is registered after its parameters
ImplicitMerged(slf, section, log, func, merged) ==
    IF merged.err # ""
    THEN Raised(merged.err,
                [slf EXCEPT !.pta_creating_function_parameters = SetKey(@, section, merged.val)],
                log)
    ELSE Raised("",
                [slf EXCEPT !.pta_creating_function_parameters = SetKey(@, section, merged.val),
                            !.pta_creating_functions = SetKey(@, section, PyCallable(func))],
                log)

\* lines 142-148: the defaults are registered before the file's parameters
\* are typed
ImplicitTyped(slf, section, log, func, defaults, function_parameters_from_file) ==
    IF function_parameters_from_file.err # ""
    THEN Raised(function_parameters_from_file.err,
                [slf EXCEPT !.pta_creating_function_parameters =
                                SetKey(@, section, PyDict(defaults))],
                log)
    ELSE ImplicitMerged(slf, section, log, func,
                        update_dictionary_with_subdictionary(
                            PyDict(defaults), PyDict(function_parameters_from_file.out)))

\* lines 141-145 and 150-154
ImplicitImported(slf, section, items, log, model_function) ==
    IF model_function.err # "" THEN Raised("AttributeError", slf, log)
    ELSE ImplicitTyped(slf, section, log, model_function.fn,
                       get_default_args_types_from_function(model_function.fn).defaults,
                       apply_types(slf, items,
                                   get_default_args_types_from_function(model_function.fn).types,
                                   {}))

\* lines 136-154: any other section names a function of
\* enterprise_extensions.models
ImplicitSection(slf, section, items, log) ==
    ImplicitImported(slf, section, items, log, GetAttr(Module_models, section))

Name_input == <<"i","n","p","u","t">>
Name_output == <<"o","u","t","p","u","t">>
Name_DEFAULT == <<"D","E","F","A","U","L","T">>

\* lines 82-154: the branches of the loop body
Branch(slf, section, config_file_items, log, ctx) ==
    IF section \in {Name_input, Name_output, Name_DEFAULT}
    THEN InputSection(slf, config_file_items, log)
    ELSE IF "class" \in ItemKeys(config_file_items)
    THEN ClassSection(slf, section, config_file_items, log, ctx)
    ELSE IF "function" \in ItemKeys(config_file_items)
    THEN FunctionSection(slf, section, config_file_items, log, ctx)
    ELSE ImplicitSection(slf, section, config_file_items, log)

\* lines 80-81: config_file_items = dict(config.items(section)), recorded
\* in self.sections
Recorded(slf, section, config_file_items, log, ctx) ==
    Branch([slf EXCEPT !.sections = SetKey(@, section, config_file_items)],
           section, config_file_items, log, ctx)

\* lines 80-154: the body of the loop for the i-th section of config.sections()
Section(slf, doc, i, log, ctx) ==
    Recorded(slf, ConfigSections(doc)[i], ConfigItems(doc, i), log, ctx)

(***************************************************************************)
(* RunSettings.get_pta_objects and create_pta_object_from_signals          *)
(***************************************************************************)
Composed(err, exit, slf, log, rds, val) ==
    [err |-> err, exit |-> exit, slf |-> slf, calls |-> log, reads |-> rds, val |-> val]

RECURSIVE PtaLoop(_, _, _, _, _)
\* line 273: the function's object joins pta_list unless the call raised
PtaMade(slf, keys, log, pta_list, ctx, made) ==
    IF made.err # "" THEN [err |-> made.err, calls |-> log, val |-> pta_list]
    ELSE PtaLoop(slf, Tail(keys), log, Append(pta_list, made.val), ctx)

\* line 273: psrs=self.psrs next to **parameters
PtaCall(func, params, psrs, id) ==
    IF "psrs" \in DOMAIN params THEN [err |-> "TypeError", val |-> PyNone]
    ELSE Call(func, SetKey(params, "psrs", psrs), id)

PtaCalled(slf, keys, log, pta_list, ctx, func, params, made) ==
    PtaMade(slf, keys,
            Append(log, CallEntry(func, SetKey(params, "psrs", slf.psrs), made, slf,
                                  [ctx EXCEPT !.section = Head(keys)])),
            pta_list, ctx, made)

\* lines 272-274: for key in self.pta_creating_function_parameters.keys()
PtaLoop(slf, keys, log, pta_list, ctx) ==
    IF keys = <<>> THEN [err |-> "", calls |-> log, val |-> pta_list]
    ELSE IF Head(keys) \notin DOMAIN slf.pta_creating_functions
    THEN [err |-> "KeyError", calls |-> log, val |-> pta_list]
    ELSE PtaCalled(slf, keys, log, pta_list, ctx,
                   slf.pta_creating_functions[Head(keys)].v,
                   slf.pta_creating_function_parameters[Head(keys)].v,
                   PtaCall(slf.pta_creating_functions[Head(keys)].v,
                           slf.pta_creating_function_parameters[Head(keys)].v,
                           slf.psrs, Len(log) + 1))

\* line 275: return pta_list
PtaListed(slf, rds, loop) == Composed(loop.err, FALSE, slf, loop.calls, rds, PyList(loop.val))

\* lines 272-275, load what load_pickled_pulsars left (lines 268-270)
PtaLoaded(load, log, rds, ctx) ==
    IF load.err # "" THEN Composed(load.err, load.exit, load.slf, log, rds, PyNone)
    ELSE PtaListed(load.slf, rds,
                   PtaLoop(load.slf, KeySeq(DOMAIN load.slf.pta_creating_function_parameters),
                           log, <<>>, [ctx EXCEPT !.reads = Len(rds)]))

\* lines 267-275
get_pta_objects(slf, files, log, rds, ctx) ==
    IF Len(slf.psrs.v) = 0
    THEN PtaLoaded(load_pickled_pulsars(slf, files), log,
                   Append(rds, LoadEntry(slf, load_pickled_pulsars(slf, files))), ctx)
    ELSE PtaLoaded([err |-> "", exit |-> FALSE, slf |-> slf], log, rds, ctx)

RECURSIVE SignalLoop(_, _, _, _, _)
SignalMade(slf, keys, log, signal_collections, ctx, made) ==
    IF made.err # "" THEN [err |-> made.err, calls |-> log, val |-> signal_collections]
    ELSE SignalLoop(slf, Tail(keys), log, Append(signal_collections, made.val), ctx)

SignalCalled(slf, keys, log, signal_collections, ctx, func, params, made) ==
    SignalMade(slf, keys,
               Append(log, CallEntry(func, params, made, slf,
                                     [ctx EXCEPT !.section = Head(keys)])),
               signal_collections, ctx, made)

\* lines 240-241: for key, func in self.signal_creating_functions.items()
SignalLoop(slf, keys, log, signal_collections, ctx) ==
    IF keys = <<>> THEN [err |-> "", calls |-> log, val |-> signal_collections]
    ELSE IF Head(keys) \notin DOMAIN slf.signal_creating_function_parameters
    THEN [err |-> "KeyError", calls |-> log, val |-> signal_collections]
    ELSE SignalCalled(slf, keys, log, signal_collections, ctx,
                      slf.signal_creating_functions[Head(keys)].v,
                      slf.signal_creating_function_parameters[Head(keys)].v,
                      Call(slf.signal_creating_functions[Head(keys)].v,
                           slf.signal_creating_function_parameters[Head(keys)].v,
                           Len(log) + 1))

\* type(pta.pulsarmodels[0]): a pta object holds one model per pulsar
get_signal_collection_from_pta_object(pta) ==
    IF Len(pta.v.kwargs["psrs"].v) = 0 THEN [err |-> "IndexError", val |-> PyNone]
    ELSE [err |-> "", val |-> PyObject(Name_Signal, pta.v.kwargs, pta.v.id)]

\* lines 243-251: model_list[0](psr) for psr in self.psrs, and the PTA of it
PtaFromSignals(slf, rds, signals) ==
    IF signals.err # "" THEN Composed(signals.err, FALSE, slf, signals.calls, rds, PyNone)
    ELSE IF signals.val = <<>>
    THEN Composed("IndexError", FALSE, slf, signals.calls, rds, PyNone)
    ELSE Composed("", FALSE, slf, signals.calls, rds,
                  PyObject(Name_PTA,
                           [k \in {"signal_collections", "psrs", "params"} |->
                               CASE k = "signal_collections" -> PyList(signals.val)
                                 [] k = "psrs" -> slf.psrs
                                 [] k = "params" -> slf.noise_dict],
                           Len(signals.calls) + 1))

\* lines 239-241: the signal collections of the pta objects, then those of
\* the signal functions
SignalsFrom(got, fromPta, ctx) ==
    IF \E i \in DOMAIN fromPta : fromPta[i].err # ""
    THEN Composed("IndexError", FALSE, got.slf, got.calls, got.reads, PyNone)
    ELSE PtaFromSignals(got.slf, got.reads,
                        SignalLoop(got.slf, KeySeq(DOMAIN got.slf.signal_creating_functions),
                                   got.calls, [i \in DOMAIN fromPta |-> fromPta[i].val],
                                   [ctx EXCEPT !.reads = Len(got.reads)]))

\* lines 238-239
PtaObjectsGot(got, ctx) ==
    IF got.err # "" THEN got
    ELSE SignalsFrom(got,
                     [i \in DOMAIN got.val.v |->
                         get_signal_collection_from_pta_object(got.val.v[i])],
                     ctx)

create_pta_object_from_signals(slf, files, log, rds, ctx) ==
    PtaObjectsGot(get_pta_objects(slf, files, log, rds, ctx), ctx)

(***************************************************************************)
(* The interpreter as a state machine: update_from_file reads a document   *)
(* section by section; between two calls of it the caller may compose.     *)
(***************************************************************************)
MaxSections == 2
MaxUpdates == 1
MaxCompose == 2

It(k, v) == [k |-> k, v |-> v]
Sec(name, items) == [name |-> name, items |-> items]
True == <<"T","r","u","e">>

Name_c2 == <<"c","2">>
Name_r1 == <<"r","1">>
Name_s1 == <<"s","1">>
Name_s2 == <<"s","2">>
Name_s3 == <<"s","3">>
Name_p1 == <<"p","1">>
Name_x1 == <<"x","1">>
Name_nomodel == <<"n","o">>

PathItems == <<It("pulsar_pickle", Path_p), It("noise_dict_json", Path_n)>>

SectionPool ==
    {Sec(Name_input, PathItems \o <<It("config_file", <<>>), It("comment", <<"x">>)>>),
     Sec(Name_output, <<It("config_file", <<"c">>)>>),
     Sec(Name_c1, <<It("module", Module_m), It("class", Name_C), It("n", <<"2">>)>>),
     Sec(Name_c2, <<It("module", Module_m), It("class", Name_C),
                    It("cfg", CUSTOM_FUNCTION_RETURN \o Name_lab)>>),
     Sec(Name_r1, <<It("module", Module_m), It("function", Name_mk),
                    It("custom_return", Name_lab), It("n", <<"3">>)>>),
     Sec(Name_s1, <<It("module", Module_m), It("function", Name_sg),
                    It("signal_return", True), It("cfg", CUSTOM_FUNCTION_RETURN \o Name_lab)>>),
     Sec(Name_s2, <<It("module", Module_m), It("function", Name_sg),
                    It("signal_return", True), It("cfg", FUNCTION_CALL \o <<"{","}">>),
                    It("flag", True)>>),
     Sec(Name_s3, <<It("module", Module_m), It("function", Name_sg),
                    It("signal_return", True), It("cfg", CUSTOM_CLASS \o Name_c1)>>),
     Sec(Name_p1, <<It("module", Module_m), It("function", Name_pt), It("pta_return", True)>>),
     Sec(Name_x1, <<It("module", Module_m), It("function", Name_sg)>>),
     Sec(Name_model, <<It("n", <<"5">>)>>),
     Sec(Name_model, <<It("n", CUSTOM_CLASS \o Name_c1)>>),
     Sec(Name_nomodel, <<>>)}

\* the documents of at most n sections from pool, section names unique,
\* with or without a [DEFAULT] section
DocumentsFrom(pool, defaults, n) ==
    {[default |-> d, sections |-> ss] :
        d \in defaults,
        ss \in UNION {{x \in [1..len -> pool] :
                          \A i, j \in 1..len : i # j => x[i].name # x[j].name} : len \in 0..n}}

Documents == DocumentsFrom(SectionPool, {<<>>, PathItems}, MaxSections)

NoiseOnDisk == [k \in {Pulsar_J1 \o Us \o Suffix_w \o Us \o LOG10_ECORR} |-> PyInt(1)]
FilesOnDisk ==
    [path \in {Path_p, Path_n} |->
        IF path = Path_p THEN PickleFile(Pulsars) ELSE JsonFile(NoiseOnDisk)]

Init ==
    /\ self = FreshSettings
    /\ run = NoRun
    /\ calls = <<>>
    /\ storage \in {FilesOnDisk, [path \in {Path_p} |-> FilesOnDisk[path]]}
    /\ reads = <<>>
    /\ args = NoArgs
    /\ ret = NoRet

Callable == ~ret.exit /\ run.status # "running"

update_from_file_begin(doc, most) ==
    /\ Callable
    /\ run.count < most
    /\ run' = [run EXCEPT !.status = IF doc.sections = <<>> THEN "returned" ELSE "running",
                          !.count = @ + 1, !.doc = doc, !.pos = 1, !.err = "",
                          !.before = self]
    /\ args' = [fn |-> "update_from_file"]
    /\ ret' = [NoRet EXCEPT !.done = doc.sections = <<>>]
    /\ UNCHANGED <<self, calls, storage, reads>>

\* the loop goes on to the next section unless this one raised
Step(r, last) ==
    /\ self' = r.slf
    /\ calls' = r.calls
    /\ run' = IF r.err # "" THEN [run EXCEPT !.status = "aborted", !.err = r.err]
              ELSE [run EXCEPT !.status = IF last THEN "returned" ELSE "running",
                               !.pos = @ + 1]
    /\ ret' = [NoRet EXCEPT !.done = r.err # "" \/ last, !.err = r.err]

update_from_file_section ==
    /\ run.status = "running"
    /\ Step(Section(self, run.doc, run.pos, calls,
                    [by |-> "update_from_file", section |-> ConfigSections(run.doc)[run.pos],
                     update |-> run.count, reads |-> Len(reads)]),
            run.pos = Len(run.doc.sections))
    /\ UNCHANGED <<storage, reads, args>>

Compose(fn, r) ==
    /\ self' = r.slf
    /\ calls' = r.calls
    /\ reads' = r.reads
    /\ run' = [run EXCEPT !.composed = @ + 1]
    /\ args' = [fn |-> fn]
    /\ ret' = [done |-> TRUE, err |-> r.err, val |-> r.val, exit |-> r.exit]
    /\ UNCHANGED storage

ComposeContext(fn) == [by |-> fn, section |-> <<>>, update |-> run.count, reads |-> Len(reads)]

get_pta_objects_call ==
    /\ Callable
    /\ run.composed < MaxCompose
    /\ Compose("get_pta_objects",
               get_pta_objects(self, storage, calls, reads, ComposeContext("get_pta_objects")))

create_pta_object_from_signals_call ==
    /\ Callable
    /\ run.composed < MaxCompose
    /\ Compose("create_pta_object_from_signals",
               create_pta_object_from_signals(self, storage, calls, reads,
                   ComposeContext("create_pta_object_from_signals")))

Next ==
    \/ \E doc \in Documents : update_from_file_begin(doc, MaxUpdates)
    \/ update_from_file_section
    \/ get_pta_objects_call
    \/ create_pta_object_from_signals_call

Spec == Init /\ [][Next]_vars

(***************************************************************************)
(* Two update_from_file calls on small documents, composition between and  *)
(* after them                                                              *)
(***************************************************************************)
MaxSeqSections == 2
MaxSeqUpdates == 2

SeqPool ==
    {s \in SectionPool : s.name \in {Name_input, Name_p1}
                         \/ s = Sec(Name_model, <<It("n", <<"5">>)>>)}

SeqDocuments == DocumentsFrom(SeqPool, {<<>>}, MaxSeqSections)

NextSeq ==
    \/ \E doc \in SeqDocuments : update_from_file_begin(doc, MaxSeqUpdates)
    \/ update_from_file_section
    \/ get_pta_objects_call
    \/ create_pta_object_from_signals_call

SpecSeq == Init /\ [][NextSeq]_vars

(***************************************************************************)
(* What the sections of the document in progress are                       *)
(***************************************************************************)
\* the sections the loop has finished, and those it has taken up: the
\* finished ones and the one that raised
Finished(i) == i < run.pos
Taken == {i \in DOMAIN run.doc.sections : Finished(i) \/ (run.status = "aborted" /\ i = run.pos)}

SectionName(i) == ConfigSections(run.doc)[i]
Items(i) == ConfigItems(run.doc, i)
Has(i, key) == key \in ItemKeys(Items(i))
IsSettings(i) == SectionName(i) \in {Name_input, Name_output, Name_DEFAULT}
IsClass(i) == ~IsSettings(i) /\ Has(i, "class")
IsFunction(i) == ~IsSettings(i) /\ ~Has(i, "class") /\ Has(i, "function")

\* the calls made while section i of the current update was processed
CallsOf(i) ==
    {n \in DOMAIN calls : /\ calls[n].by = "update_from_file"
                          /\ calls[n].update = run.count
                          /\ calls[n].section = SectionName(i)}

\* the items of section i whose value refers to another section's output
References(i) ==
    {j \in DOMAIN Items(i) :
        /\ ~IsSettings(i)
        /\ \/ Contains(Items(i)[j].v, CUSTOM_FUNCTION_RETURN)
           \/ Contains(Items(i)[j].v, CUSTOM_CLASS)}

Target(value) ==
    IF Contains(value, CUSTOM_FUNCTION_RETURN)
    THEN [kind |-> "label", name |-> Remove(value, CUSTOM_FUNCTION_RETURN)]
    ELSE [kind |-> "class", name |-> Remove(value, CUSTOM_CLASS)]

\* a section before the i-th produces the target
ProducedBefore(i, target) ==
    \E j \in 1..(i - 1) :
        IF target.kind = "class"
        THEN IsClass(j) /\ SectionName(j) = target.name
        ELSE /\ IsFunction(j)
             /\ Has(j, "custom_return")
             /\ ItemValue(Items(j), "custom_return") = target.name

Stored(target) ==
    IF target.kind = "class"
    THEN self.custom_classes[target.name]
    ELSE self.custom_function_return[target.name]

\* obj is what the callable of section i gets for key: in the call made
\* while the section is processed, or in the parameters registered for the
\* factory
Handed(i, key, obj) ==
    IF IsClass(i) \/ (IsFunction(i) /\ Has(i, "custom_return"))
    THEN \E n \in CallsOf(i) :
             key \in DOMAIN calls[n].kwargs.v /\ calls[n].kwargs.v[key] = obj
    ELSE LET registry == IF IsFunction(i) /\ Has(i, "signal_return")
                         THEN self.signal_creating_function_parameters
                         ELSE self.pta_creating_function_parameters
         IN  /\ SectionName(i) \in DOMAIN registry
             /\ IsMapping(registry[SectionName(i)])
             /\ key \in DOMAIN registry[SectionName(i)].v
             /\ registry[SectionName(i)].v[key] = obj

\* C1: sections are processed in document order and a CUSTOM_CLASS:<name> or
\* CUSTOM_FUNCTION_RETURN:<label> value of a section resolves to the output
\* of an earlier section only: with no earlier producer the section raises
\* the unresolved-reference error (KeyError) and the run aborts there; with
\* an earlier producer the section's callable is handed exactly the object
\* that producer stored.
C1_ReferencesResolveBackwards ==
    \A i \in Taken : \A j \in References(i) :
        IF ProducedBefore(i, Target(Items(i)[j].v))
        THEN Handed(i, Items(i)[j].k, Stored(Target(Items(i)[j].v)))
        ELSE run.status = "aborted" /\ run.pos = i /\ run.err = "KeyError"

\* C2: whenever composition can begin, also after an update_from_file call
\* that raised part-way, every section in signal_creating_functions has an
\* entry in signal_creating_function_parameters and every section in
\* pta_creating_functions has one in pta_creating_function_parameters.
C2_FactoriesHaveParameters ==
    Callable =>
        /\ DOMAIN self.signal_creating_functions
               \subseteq DOMAIN self.signal_creating_function_parameters
        /\ DOMAIN self.pta_creating_functions
               \subseteq DOMAIN self.pta_creating_function_parameters

\* the values a document offers for a field: the non-empty ones of [DEFAULT]
\* and of the sections named input or output
Offered(field) ==
    {it.v : it \in {x \in {run.doc.default[j] : j \in DOMAIN run.doc.default}
                          \cup UNION {{Items(i)[j] : j \in DOMAIN Items(i)} :
                                         i \in {k \in DOMAIN run.doc.sections : IsSettings(k)}} :
                       x.k = field /\ x.v # <<>>}}

\* C6: after update_from_file has returned, every non-empty key of [DEFAULT]
\* and of a section named input or output that names a declared field is
\* stored in that field, coerced by the field's type, also when the document
\* has no input or output section; a field the document offers no value for
\* is unchanged.
C6_SettingsStored ==
    run.status = "returned" =>
        \A field \in {"config_file", "pulsar_pickle", "noise_dict_json"} :
            IF Offered(field) = {} THEN self[field] = run.before[field]
            ELSE self[field] \in {PyStr(v) : v \in Offered(field)}

\* the calls of load_pickled_pulsars, among the first n, that read the files
ReadsBefore(n) == {k \in 1..n : reads[k].err = ""}

\* C7: in any sequence of update_from_file and get_pta_objects or
\* create_pta_object_from_signals calls on a fresh object, whenever a pta
\* factory is invoked the subjects and the noise dictionary have been loaded,
\* they were read from storage once and no more, and a 'noisedict' parameter
\* of the factory is passed the loaded noise dictionary.
C7_FactoriesGetLoadedNoise ==
    \A n \in DOMAIN calls :
        (calls[n].by # "update_from_file" /\ Callables[calls[n].fn].kind = "pta") =>
            /\ Len(calls[n].psrs.v) > 0
            /\ Cardinality(ReadsBefore(calls[n].reads)) = 1
            /\ "noisedict" \in DOMAIN calls[n].kwargs.v
                   => calls[n].kwargs.v["noisedict"] = calls[n].noise_dict

\* the function a function section names, once it is known to exist
Importable(i) ==
    /\ Has(i, "module")
    /\ GetAttr(ItemValue(Items(i), "module"), ItemValue(Items(i), "function")).err = ""
FunctionOf(i) == GetAttr(ItemValue(Items(i), "module"), ItemValue(Items(i), "function")).fn

\* the defaults of the function with the file's typed parameters laid over
\* them, the way the contract of the merge describes
Expected(i) ==
    PyDict(MergeContract(
        get_default_args_types_from_function(FunctionOf(i)).defaults,
        apply_types(self, Items(i),
                    get_default_args_types_from_function(FunctionOf(i)).types,
                    exclude_keys).out))

RegisteredWith(i, functions, parameters) ==
    /\ SectionName(i) \in DOMAIN functions
    /\ functions[SectionName(i)] = PyCallable(FunctionOf(i))
    /\ SectionName(i) \in DOMAIN parameters
    /\ parameters[SectionName(i)] = Expected(i)
    /\ CallsOf(i) = {}

Unregistered(i) ==
    /\ SectionName(i) \notin DOMAIN self.signal_creating_functions
    /\ SectionName(i) \notin DOMAIN self.pta_creating_functions

\* C8: for every function section update_from_file processes (before any
\* composition): with custom_return=label the function is called exactly once
\* while the section is processed, its result is stored under label and the
\* section enters no factory registry; with signal_return (resp. pta_return)
\* the function is registered under the section name with the defaults merged
\* with the file's parameters and is not called; with none of the three keys
\* update_from_file raises and the section enters no factory registry.
C8_FunctionSectionsDispatch ==
    run.composed = 0 =>
        \A i \in Taken : (IsFunction(i) /\ Importable(i)) =>
            IF Has(i, "custom_return")
            THEN Finished(i) =>
                     /\ Cardinality(CallsOf(i)) = 1
                     /\ ItemValue(Items(i), "custom_return") \in DOMAIN self.custom_function_return
                     /\ \A n \in CallsOf(i) :
                            self.custom_function_return[ItemValue(Items(i), "custom_return")]
                                = calls[n].val
                     /\ Unregistered(i)
            ELSE IF Has(i, "signal_return")
            THEN Finished(i) => RegisteredWith(i, self.signal_creating_functions,
                                               self.signal_creating_function_parameters)
            ELSE IF Has(i, "pta_return")
            THEN Finished(i) => RegisteredWith(i, self.pta_creating_functions,
                                               self.pta_creating_function_parameters)
            ELSE run.status = "aborted" /\ run.pos = i /\ Unregistered(i)

\* C10: whenever update_from_file has returned or raised, every section that
\* is a key of pta_creating_function_parameters is a key of
\* pta_creating_functions, so that get_pta_objects finds a factory for every
\* key it iterates.
C10_ParametersHaveFactories ==
    (Callable /\ run.count > 0) =>
        DOMAIN self.pta_creating_function_parameters
            \subseteq DOMAIN self.pta_creating_functions

====
